---------------------------- MODULE Spec2Model ----------------------------
(***************************************************************************)
(* A model of the scraper of src/scraper/utils.py: normalize_url,          *)
(* get_html, parse_html, process_url and extract_data_from_urls.           *)
(*                                                                         *)
(* Strings are sequences of one-character strings, so that strip, rstrip,  *)
(* split and urljoin are computed character by character.  The alphabet    *)
(* holds no '?', '#', ';' or '[': queries, fragments, params and IPv6      *)
(* hosts are outside the model.                                            *)
(***************************************************************************)
EXTENDS Integers, Sequences, FiniteSets, TLC

None == "None"

(***************************************************************************)
(* str methods                                                             *)
(***************************************************************************)
Whitespace == {" "}

\* An rstrip that removes one trailing character at most.
rstrip_once(s, chars) ==
    IF Len(s) > 0 /\ s[Len(s)] \in chars THEN SubSeq(s, 1, Len(s) - 1) ELSE s

\* s.rstrip(chars): every trailing character in chars is removed.
rstrip(s, chars) ==
    LET keep == {i \in 1..Len(s) : s[i] \notin chars}
        last == IF keep = {} THEN 0 ELSE CHOOSE i \in keep : \A j \in keep : j <= i
    IN  SubSeq(s, 1, last)

\* s.lstrip(chars)
lstrip(s, chars) ==
    LET keep  == {i \in 1..Len(s) : s[i] \notin chars}
        first == IF keep = {} THEN Len(s) + 1
                 ELSE CHOOSE i \in keep : \A j \in keep : i <= j
    IN  SubSeq(s, first, Len(s))

\* s.strip()
strip(s) == rstrip(lstrip(s, Whitespace), Whitespace)

\* s.find(c) + 1: the position of the first c, 0 when there is none.
find(s, c) ==
    LET hits == {i \in 1..Len(s) : s[i] = c}
    IN  IF hits = {} THEN 0 ELSE CHOOSE i \in hits : \A j \in hits : i <= j

\* s.split(c): the pieces between the occurrences of c (never empty).
RECURSIVE split(_, _)
split(s, c) ==
    LET i == find(s, c)
    IN  IF i = 0 THEN <<s>>
        ELSE <<SubSeq(s, 1, i - 1)>> \o split(SubSeq(s, i + 1, Len(s)), c)

\* c.join(parts)
RECURSIVE join(_, _)
join(parts, c) ==
    IF Len(parts) = 0 THEN <<>>
    ELSE IF Len(parts) = 1 THEN parts[1]
    ELSE parts[1] \o <<c>> \o join(Tail(parts), c)

\* list(filter(None, parts)): the non-empty pieces, in order.
RECURSIVE filterNone(_)
filterNone(parts) ==
    IF Len(parts) = 0 THEN <<>>
    ELSE (IF Head(parts) = <<>> THEN <<>> ELSE <<Head(parts)>>)
         \o filterNone(Tail(parts))

(***************************************************************************)
(* urllib.parse, as far as normalize_url uses it                           *)
(***************************************************************************)
Letters == {"a", "e", "f", "h", "n", "p", "s", "t", "x"}
scheme_chars == Letters \cup {"+", "-", "."}

HTTP  == <<"h", "t", "t", "p">>
HTTPS == <<"h", "t", "t", "p", "s">>
FTP   == <<"f", "t", "p">>
\* The schemes of the alphabet that urllib lists in uses_relative and in
\* uses_netloc (both lists hold '', ftp, http and https).
uses_relative == {<<>>, FTP, HTTP, HTTPS}
uses_netloc   == {<<>>, FTP, HTTP, HTTPS}

\* urlsplit(url, scheme) without query and fragment: <scheme, netloc, path>.
urlsplit(url, scheme) ==
    LET i      == find(url, ":")
        hasSch == /\ i > 1
                  /\ url[1] \in Letters
                  /\ \A k \in 1..(i - 1) : url[k] \in scheme_chars
        sch    == IF hasSch THEN SubSeq(url, 1, i - 1) ELSE scheme
        rest   == IF hasSch THEN SubSeq(url, i + 1, Len(url)) ELSE url
        hasNet == Len(rest) >= 2 /\ rest[1] = "/" /\ rest[2] = "/"
        after  == SubSeq(rest, 3, Len(rest))
        d      == find(after, "/")
        netloc == IF ~hasNet THEN <<>>
                  ELSE IF d = 0 THEN after ELSE SubSeq(after, 1, d - 1)
        path   == IF ~hasNet THEN rest
                  ELSE IF d = 0 THEN <<>> ELSE SubSeq(after, d, Len(after))
    IN  [scheme |-> sch, netloc |-> netloc, path |-> path]

\* urlunsplit((scheme, netloc, path, '', ''))
urlunsplit(scheme, netloc, path) ==
    LET slashed == IF path # <<>> /\ path[1] # "/" THEN <<"/">> \o path ELSE path
        withNet ==
            IF \/ netloc # <<>>
               \/ /\ scheme # <<>>
                  /\ scheme \in uses_netloc
                  /\ ~(Len(path) >= 2 /\ path[1] = "/" /\ path[2] = "/")
            THEN <<"/", "/">> \o netloc \o slashed
            ELSE path
    IN  IF scheme # <<>> THEN scheme \o <<":">> \o withNet ELSE withNet

\* The dot-segment loop of urljoin.
RECURSIVE resolve(_, _)
resolve(segments, acc) ==
    IF Len(segments) = 0 THEN acc
    ELSE LET seg == Head(segments)
         IN  IF seg = <<".", ".">>
             THEN resolve(Tail(segments),
                          IF Len(acc) = 0 THEN acc ELSE SubSeq(acc, 1, Len(acc) - 1))
             ELSE IF seg = <<".">> THEN resolve(Tail(segments), acc)
             ELSE resolve(Tail(segments), Append(acc, seg))

\* base_parts of urljoin: the segments of the base path without the last
\* one, unless that is empty.
base_parts(bpath) ==
    IF split(bpath, "/")[Len(split(bpath, "/"))] # <<>>
    THEN SubSeq(split(bpath, "/"), 1, Len(split(bpath, "/")) - 1)
    ELSE split(bpath, "/")

\* segments[1:-1] = filter(None, segments[1:-1])
filter_inner(segs) ==
    IF Len(segs) <= 2 THEN segs
    ELSE <<segs[1]>> \o filterNone(SubSeq(segs, 2, Len(segs) - 1))
         \o <<segs[Len(segs)]>>

\* segments of urljoin, for a non-empty path of url.
segments_of(bpath, upath) ==
    IF upath[1] = "/" THEN split(upath, "/")
    ELSE filter_inner(base_parts(bpath) \o split(upath, "/"))

\* resolved_path of urljoin, joined; '/' when it is empty.
resolved_path(segs) ==
    IF join(IF segs[Len(segs)] \in {<<".">>, <<".", ".">>}
            THEN Append(resolve(segs, <<>>), <<>>)
            ELSE resolve(segs, <<>>), "/") = <<>>
    THEN <<"/">>
    ELSE join(IF segs[Len(segs)] \in {<<".">>, <<".", ".">>}
              THEN Append(resolve(segs, <<>>), <<>>)
              ELSE resolve(segs, <<>>), "/")

\* urljoin for a non-empty base b and a non-empty url u, both split.
urljoin_split(b, u, url) ==
    IF u.scheme # b.scheme \/ u.scheme \notin uses_relative THEN url
    ELSE IF u.scheme \in uses_netloc /\ u.netloc # <<>>
    THEN urlunsplit(u.scheme, u.netloc, u.path)
    ELSE IF u.path = <<>>
    THEN urlunsplit(u.scheme,
                    IF u.scheme \in uses_netloc THEN b.netloc ELSE u.netloc,
                    b.path)
    ELSE urlunsplit(u.scheme,
                    IF u.scheme \in uses_netloc THEN b.netloc ELSE u.netloc,
                    resolved_path(segments_of(b.path, u.path)))

\* urljoin(base, url)
urljoin(base, url) ==
    IF base = <<>> THEN url
    ELSE IF url = <<>> THEN base
    ELSE urljoin_split(urlsplit(base, <<>>),
                       urlsplit(url, urlsplit(base, <<>>).scheme), url)

\* A normalize_url that joins with the base as it was given.
normalize_url_base_untrimmed(url, base_url) ==
    rstrip(urljoin(base_url, url), {"/"})

\* normalize_url(url, base_url)
normalize_url(url, base_url) ==
    rstrip(urljoin(rstrip(base_url, {"/"}), url), {"/"})

(***************************************************************************)
(* HTML documents, as far as parse_html reads them.  A non-empty document  *)
(* is the sequence of its elements in document order, each with the index  *)
(* of its parent element (0: the document itself); the empty sequence is   *)
(* the empty string.  An anchor holds one text node and no child element.  *)
(* The two keywords of the pattern are the one-character tokens K1 and K2. *)
(***************************************************************************)
MarkerId == "block-menu-menu-egov-services"
K1 == "K1"  \* the first alternative of the pattern of line 83
K2 == "K2"  \* the second alternative
Keywords == {K1, K2}

MaxNodes == 3

\* The href values and the texts of the anchors of the documents.
Hrefs == {<<" ">>, <<" ", "/", "a", "/">>}
Texts == {<<" ">>, <<" ", "s">>, <<"s", K2, " ">>}

Element(name, id, has_href, href, text, parent) ==
    [name |-> name, id |-> id, has_href |-> has_href, href |-> href,
     text |-> text, parent |-> parent]

\* The marker div and a list item.
Containers(p) ==
    { Element("div", MarkerId, FALSE, <<>>, <<>>, p),
      Element("li", "", FALSE, <<>>, <<>>, p) }

\* Anchors without an href (a keyword one, a plain one) and with one.
Anchors(p) ==
    { Element("a", "", FALSE, <<>>, t, p) : t \in {<<K1>>, <<"s">>} }
    \cup
    { Element("a", "", TRUE, h, t, p) : h \in Hrefs, t \in Texts }

\* The ancestors of element i, nearest first.
RECURSIVE parents(_, _)
parents(doc, i) ==
    IF doc[i].parent = 0 THEN <<>>
    ELSE <<doc[i].parent>> \o parents(doc, doc[i].parent)

Range(s) == {s[k] : k \in 1..Len(s)}

\* Where the next element of a document may hang: under the document, or
\* under an open container (the last element or one of its ancestors).
OpenParents(doc) ==
    IF Len(doc) = 0 THEN {0}
    ELSE {0} \cup {j \in {Len(doc)} \cup Range(parents(doc, Len(doc))) :
                      doc[j].name # "a"}

RECURSIVE DocsOfLen(_)
DocsOfLen(n) ==
    IF n = 0 THEN {<<>>}
    ELSE UNION { { Append(d, e) :
                     e \in UNION {Containers(p) \cup Anchors(p) : p \in OpenParents(d)} }
                 : d \in DocsOfLen(n - 1) }

\* The documents of at most n elements.
DocsUpTo(n) == UNION {DocsOfLen(k) : k \in 0..n}

(***************************************************************************)
(* BeautifulSoup, as far as parse_html uses it                             *)
(***************************************************************************)
\* The least element of a set of indexes, 0 (None) when it is empty.
First(S) == IF S = {} THEN 0 ELSE CHOOSE i \in S : \A j \in S : i <= j

\* s.find('div', id='block-menu-menu-egov-services')
find_services_div(doc) ==
    First({i \in 1..Len(doc) : doc[i].name = "div" /\ doc[i].id = MarkerId})

\* re.compile(...).search(string)
pattern_search(text) == \E k \in 1..Len(text) : text[k] \in Keywords

\* s.find('a', text=re.compile(...))
find_keyword_anchor(doc) ==
    First({i \in 1..Len(doc) : doc[i].name = "a" /\ pattern_search(doc[i].text)})

\* tag.find_parent('li'): the nearest enclosing li, 0 (None) without one.
find_parent_li(doc, i) ==
    LET ps == parents(doc, i)
        ks == {k \in 1..Len(ps) : doc[ps[k]].name = "li"}
    IN  IF ks = {} THEN 0 ELSE ps[First(ks)]

\* region.find_all('a', href=True): the anchors below region that carry an
\* href attribute, in document order.
find_all_a_href(doc, region) ==
    {j \in 1..Len(doc) : /\ doc[j].name = "a"
                         /\ doc[j].has_href
                         /\ region \in Range(parents(doc, j))}

\* link.get_text(strip=True)
get_text_strip(link) == strip(link.text)

(***************************************************************************)
(* parse_html                                                              *)
(***************************************************************************)
\* A selector loop that asks for the keyword anchor first.
select_keyword_first(doc) ==
    IF find_keyword_anchor(doc) # 0 THEN find_keyword_anchor(doc)
    ELSE find_services_div(doc)

\* The loop over the selectors: the first one that finds an element wins.
select_services_div(doc) ==
    IF find_services_div(doc) # 0 THEN find_services_div(doc)
    ELSE find_keyword_anchor(doc)

\* if services_div.name == 'a': services_div = services_div.find_parent('li')
region_of(doc, services_div) ==
    IF doc[services_div].name = "a" THEN find_parent_li(doc, services_div)
    ELSE services_div

\* A condition that forgets the href.
link_kept_text_only(link) == get_text_strip(link) # <<>>

\* The condition of the comprehension.
link_kept(link) == get_text_strip(link) # <<>> /\ strip(link.href) # <<>>

\* One entry of the comprehension.
service_entry(link, base_url) ==
    [service_name    |-> get_text_strip(link),
     link_of_service |-> normalize_url(strip(link.href), base_url)]

\* The comprehension over the links j..Len(doc) of the region.
RECURSIVE harvest(_, _, _, _)
harvest(doc, links, j, base_url) ==
    IF j > Len(doc) THEN <<>>
    ELSE (IF j \in links /\ link_kept(doc[j])
          THEN <<service_entry(doc[j], base_url)>>
          ELSE <<>>)
         \o harvest(doc, links, j + 1, base_url)

Returned(v) == [raised |-> None, value |-> v]
Raised(e)   == [raised |-> e, value |-> <<>>]

\* A parse_html without the test of line 92: None.name raises.
parse_html_unguarded(base_url, html) ==
    IF html = <<>> THEN Returned(<<>>)
    ELSE IF select_services_div(html) = 0 THEN Raised("AttributeError")
    ELSE IF region_of(html, select_services_div(html)) = 0
    THEN Raised("AttributeError")
    ELSE Returned(harvest(html,
                          find_all_a_href(html,
                                          region_of(html, select_services_div(html))),
                          1, base_url))

\* parse_html(base_url, html): the list returned, or the exception raised.
parse_html(base_url, html) ==
    IF html = <<>> THEN Returned(<<>>)
    ELSE LET services_div == select_services_div(html)
         IN  IF services_div = 0 THEN Returned(<<>>)
             ELSE LET region == region_of(html, services_div)
                  IN  IF region = 0
                      THEN Raised("AttributeError")  \* None.find_all
                      ELSE Returned(harvest(html, find_all_a_href(html, region),
                                            1, base_url))

(***************************************************************************)
(* requests, as far as get_html uses it.  What a GET meets is an event: a  *)
(* transport failure, or a final response with a status and a body.        *)
(***************************************************************************)
TransportFailures ==
    {"connect_timeout", "read_timeout", "dns_failure", "connection_refused",
     "tls_failure", "too_many_redirects", "broken_body"}

\* Final statuses: redirects that requests follows never end a request, so
\* a 3xx here is one it does not follow (300, 304).
Statuses == {200, 204, 300, 304, 404, 503}

Failure(cause)         == [cause |-> cause, status |-> 0, body |-> <<>>]
Response(status, body) == [cause |-> "response", status |-> status, body |-> body]

\* The exception class requests raises for a transport failure.
exception_of(cause) ==
    CASE cause = "connect_timeout"    -> "ConnectTimeout"
      [] cause = "read_timeout"       -> "ReadTimeout"
      [] cause = "dns_failure"        -> "ConnectionError"
      [] cause = "connection_refused" -> "ConnectionError"
      [] cause = "tls_failure"        -> "SSLError"
      [] cause = "too_many_redirects" -> "TooManyRedirects"
      [] cause = "broken_body"        -> "ChunkedEncodingError"

\* The exception requests raises for a URL it cannot request, None for a
\* URL with an http(s) scheme and a host.
url_exception(url) ==
    LET u == urlsplit(url, <<>>)
    IN  IF u.scheme = <<>> THEN "MissingSchema"
        ELSE IF u.scheme \notin {HTTP, HTTPS} THEN "InvalidSchema"
        ELSE IF u.netloc = <<>> THEN "InvalidURL"
        ELSE None

\* The classes of requests.exceptions and their base classes.
bases_of(e) ==
    CASE e = "ConnectTimeout" -> {"ConnectionError", "Timeout", "RequestException"}
      [] e = "ReadTimeout"    -> {"Timeout", "RequestException"}
      [] e = "SSLError"       -> {"ConnectionError", "RequestException"}
      [] e = "ChunkedEncodingError" -> {"RequestException"}
      [] e = "MissingSchema"  -> {"RequestException", "ValueError"}
      [] e = "InvalidSchema"  -> {"RequestException", "ValueError"}
      [] e = "InvalidURL"     -> {"RequestException", "ValueError"}
      [] e \in {"ConnectionError", "Timeout", "HTTPError", "TooManyRedirects"}
                              -> {"RequestException"}
      [] OTHER                -> {}

isinstance(e, class) == e = class \/ class \in bases_of(e)

\* requests.get(url, timeout=10): the exception it raises, None when it
\* returns the response.
get_raises(url, ev) ==
    IF url_exception(url) # None THEN url_exception(url)
    ELSE IF ev.cause # "response" THEN exception_of(ev.cause)
    ELSE None

\* A raise_for_status that never raises.
raise_for_status_never(status) == None

\* res.raise_for_status(): HTTPError for a 4xx or 5xx status.
raise_for_status(status) ==
    IF 400 <= status /\ status < 600 THEN "HTTPError" ELSE None

(***************************************************************************)
(* get_html                                                                *)
(***************************************************************************)
NoHtml  == <<>>     \* 'html': None
Html(d) == <<d>>    \* 'html': the text d

\* An except clause that names ConnectionError only.
caught_connection_only(e) == isinstance(e, "ConnectionError")

\* except requests.RequestException
caught(e) == isinstance(e, "RequestException")

\* The state of a call of get_html before its first statement.
get_html_start(url, ev) ==
    [pc |-> "get", url |-> url, ev |-> ev, exc |-> None, gets |-> 0,
     response |-> [url |-> url, error |-> None, html |-> NoHtml]]

\* One statement of get_html; gets counts the calls of requests.get.
get_html_step(f) ==
    CASE f.pc = "get" ->
           IF get_raises(f.url, f.ev) # None
           THEN [f EXCEPT !.pc = "except", !.exc = get_raises(f.url, f.ev),
                          !.gets = @ + 1]
           ELSE [f EXCEPT !.pc = "raise_for_status", !.gets = @ + 1]
      [] f.pc = "raise_for_status" ->
           IF raise_for_status(f.ev.status) # None
           THEN [f EXCEPT !.pc = "except", !.exc = raise_for_status(f.ev.status)]
           ELSE [f EXCEPT !.pc = "text"]
      [] f.pc = "text" ->
           [f EXCEPT !.pc = "return", !.response.html = Html(f.ev.body)]
      [] f.pc = "except" ->
           IF caught(f.exc)
           THEN [f EXCEPT !.pc = "return", !.response.error = f.exc, !.exc = None]
           ELSE [f EXCEPT !.pc = "propagated"]
      [] f.pc = "return" -> [f EXCEPT !.pc = "returned"]

get_html_ended(f) == f.pc \in {"returned", "propagated"}

\* A call of get_html run to its end.
RECURSIVE get_html_run(_)
get_html_run(f) == IF get_html_ended(f) THEN f ELSE get_html_run(get_html_step(f))

get_html(url, ev) == get_html_run(get_html_start(url, ev))

(***************************************************************************)
(* process_url                                                             *)
(***************************************************************************)
\* What a call made in a worker leaves in its future.
FutUnset       == [done |-> FALSE, raised |-> None, value |-> [none |-> TRUE]]
FutReturned(v) == [done |-> TRUE, raised |-> None, value |-> v]
FutRaised(e)   == [done |-> TRUE, raised |-> e, value |-> [none |-> TRUE]]

\* A test of response['error'] that never sees an error.
fetch_failed_never(response) == FALSE

\* if response['error']: the name of an exception class is never empty.
fetch_failed(response) == response.error # None

\* {url: {'error': response['error']}}
error_result(url, response) == [url |-> url, body |-> [error |-> response.error]]

\* response['html'] as parse_html tests it: None is as false as ''.
html_of(response) ==
    IF response.html = NoHtml THEN <<>> ELSE response.html[1]

\* return {url: parse_html(url, response['html'])}: the dictionary, or the
\* exception of parse_html passing through process_url.
extract_result(url, response) ==
    LET out == parse_html(url, html_of(response))
    IN  IF out.raised # None THEN FutRaised(out.raised)
        ELSE FutReturned([url |-> url, body |-> [links |-> out.value]])

(***************************************************************************)
(* State                                                                   *)
(***************************************************************************)
VARIABLES
    p_pc,       \* parse_html alone: "idle", "call" or "done"
    p_base,     \* its base_url
    p_html,     \* its html
    p_out,      \* what it returned or raised
    f,          \* get_html alone: the state of the call
    urls,       \* extract_data_from_urls: its argument urls
    max_workers,\* its argument max_workers
    pc,         \* where the calling thread is
    state,      \* per position of urls: where its unit of work is
    worker,     \* per pool thread: the position it is working on, 0 if none
    resp,       \* per position: what get_html returned for it
    fut,        \* per position: the future of its process_url call
    taken,      \* the positions whose result the caller has taken
    result,     \* the list built by list(executor.map(...))
    error,      \* the exception the call ends with, None without one
    finished,   \* history: the positions in the order their units ended
    gets,       \* per position: how often requests.get was called for it
    n_pc,       \* normalize_url alone: "idle", "call", "once" or "twice"
    n_url,      \* its url
    n_base,     \* its base_url
    n_out,      \* what it returned
    n_again,    \* what it returned for (n_out, n_base)
    a_pc,       \* ScraperAPIView.post: "idle", "request", "run" or "responded"
    a_data,     \* request.data
    a_resp      \* the response of the view

parse_vars == <<p_pc, p_base, p_html, p_out>>
batch_vars ==
    <<urls, max_workers, pc, state, worker, resp, fut, taken, result, error,
      finished, gets>>
norm_vars == <<n_pc, n_url, n_base, n_out, n_again>>
api_vars == <<a_pc, a_data, a_resp>>
vars == <<parse_vars, f, batch_vars, norm_vars, api_vars>>

\* The URLs a page is fetched from: process_url passes the URL it fetched.
U1 == <<"h", "t", "t", "p", ":", "/", "/", "h">>
U2 == <<"h", "t", "t", "p", ":", "/", "/", "h", "/", "e", "n", "/">>
PageUrls == {U1, U2}

NoOut == [raised |-> None, value |-> <<>>]

ParseIdle == p_pc = "idle" /\ p_base = <<>> /\ p_html = <<>> /\ p_out = NoOut

\* URLs that requests refuses: no scheme, a scheme without an adapter, no host.
BadUrls == { <<"h">>, FTP \o <<":", "/", "/", "h">>, HTTP \o <<":", "/", "/">> }

\* A page with one service link under the marker div, and one whose keyword
\* anchor stands outside every list item.
ServicesPage ==
    << Element("div", MarkerId, FALSE, <<>>, <<>>, 0),
       Element("a", "", TRUE, <<"/", "a">>, <<"s">>, 1) >>
KeywordPage == << Element("a", "", TRUE, <<"/", "a">>, <<K1>>, 0) >>
Bodies == {<<>>, ServicesPage, KeywordPage}

Events == {Failure(c) : c \in TransportFailures}
          \cup {Response(st, b) : st \in Statuses, b \in Bodies}

FetchOff == [pc |-> "idle"]
FetchIdle == f = FetchOff

BatchIdle ==
    /\ pc = "idle" /\ urls = <<>> /\ max_workers = 0 /\ state = <<>>
    /\ worker = <<>> /\ resp = <<>> /\ fut = <<>> /\ taken = {}
    /\ result = <<>> /\ error = None /\ finished = <<>> /\ gets = <<>>

NormIdle ==
    n_pc = "idle" /\ n_url = <<>> /\ n_base = <<>> /\ n_out = <<>> /\ n_again = <<>>

NoData == [kind |-> "none", urls |-> <<>>]
NoReply == [status |-> 0, data |-> <<>>, errors |-> None]
ApiIdle == a_pc = "idle" /\ a_data = NoData /\ a_resp = NoReply

(***************************************************************************)
(* get_html on its own: every URL and every event                          *)
(***************************************************************************)
InitFetch ==
    /\ ParseIdle
    /\ BatchIdle
    /\ NormIdle
    /\ ApiIdle
    /\ \E url \in PageUrls \cup BadUrls, ev \in Events : f = get_html_start(url, ev)

GetHtmlStep ==
    /\ f.pc \notin {"idle", "returned", "propagated"}
    /\ f' = get_html_step(f)
    /\ UNCHANGED <<parse_vars, batch_vars, norm_vars, api_vars>>

NextFetch == GetHtmlStep

SpecFetch == InitFetch /\ [][NextFetch]_vars

(***************************************************************************)
(* parse_html on its own: every document of at most MaxNodes elements      *)
(***************************************************************************)
InitParse ==
    /\ p_pc = "call"
    /\ p_base \in PageUrls
    /\ p_html \in DocsUpTo(MaxNodes)
    /\ p_out = NoOut
    /\ FetchIdle
    /\ BatchIdle
    /\ NormIdle
    /\ ApiIdle

ParseHtml ==
    /\ p_pc = "call"
    /\ p_out' = parse_html(p_base, p_html)
    /\ p_pc' = "done"
    /\ UNCHANGED <<p_base, p_html, f, batch_vars, norm_vars, api_vars>>

NextParse == ParseHtml

SpecParse == InitParse /\ [][NextParse]_vars

(***************************************************************************)
(* normalize_url on its own: every url of at most MaxRefLen characters     *)
(* against absolute and relative bases, applied once and then again to     *)
(* its own result                                                          *)
(***************************************************************************)
MaxRefLen == 4
RefChars == {"a", "/", ".", ":"}

RECURSIVE StrsOfLen(_)
StrsOfLen(n) ==
    IF n = 0 THEN {<<>>}
    ELSE {Append(str, c) : str \in StrsOfLen(n - 1), c \in RefChars}
StrsUpTo(n) == UNION {StrsOfLen(k) : k \in 0..n}

\* The page URLs, two bases with repeated trailing slashes, and two bases
\* without scheme and host.
NormBases ==
    PageUrls \cup { U2 \o <<"/">>, U1 \o <<"/", "/">>,
                    <<"/", "a", "/", "x">>, <<"a", "/", "x">> }

InitNorm ==
    /\ n_pc = "call"
    /\ n_url \in StrsUpTo(MaxRefLen)
    /\ n_base \in NormBases
    /\ n_out = <<>>
    /\ n_again = <<>>
    /\ ParseIdle
    /\ FetchIdle
    /\ BatchIdle
    /\ ApiIdle

Normalize ==
    /\ n_pc = "call"
    /\ n_out' = normalize_url(n_url, n_base)
    /\ n_pc' = "once"
    /\ UNCHANGED <<n_url, n_base, n_again, parse_vars, f, batch_vars, api_vars>>

NormalizeAgain ==
    /\ n_pc = "once"
    /\ n_again' = normalize_url(n_out, n_base)
    /\ n_pc' = "twice"
    /\ UNCHANGED <<n_url, n_base, n_out, parse_vars, f, batch_vars, api_vars>>

NextNorm == Normalize \/ NormalizeAgain

SpecNorm == InitNorm /\ [][NextNorm]_vars

(***************************************************************************)
(* extract_data_from_urls: the calling thread, the pool threads of the     *)
(* ThreadPoolExecutor and one unit of work (a process_url call) per        *)
(* position of urls                                                        *)
(***************************************************************************)
MaxUrls    == 2
MaxWorkers == 2

UrlLists  == UNION {[1..n -> PageUrls] : n \in 0..MaxUrls}
PoolSizes == (0 - 1)..MaxWorkers

\* What the fetch of a unit may meet: a timeout, a 404, and a 200 with each
\* of the bodies.
BatchEvents ==
    {Failure("read_timeout"), Response(404, <<>>)}
    \cup {Response(200, b) : b \in Bodies}

Units   == 1..Len(urls)
Threads == 1..(IF max_workers > 0 THEN max_workers ELSE 0)
Active  == {"Fetching", "FetchFailed", "Fetched", "Extracting"}
NoResponse == [url |-> <<>>, error |-> None, html |-> NoHtml]

Init ==
    /\ ParseIdle
    /\ FetchIdle
    /\ urls \in UrlLists
    /\ max_workers \in PoolSizes
    /\ pc = "call"
    /\ state = [i \in Units |-> "Pending"]
    /\ worker = [w \in Threads |-> 0]
    /\ resp = [i \in Units |-> NoResponse]
    /\ fut = [i \in Units |-> FutUnset]
    /\ taken = {}
    /\ result = <<>>
    /\ error = None
    /\ finished = <<>>
    /\ gets = [i \in Units |-> 0]
    /\ NormIdle
    /\ ApiIdle

\* A check that lets a pool of no thread through.
pool_size_invalid_negative(n) == n < 0

\* ThreadPoolExecutor(max_workers=n) raises ValueError for n <= 0.
pool_size_invalid(n) == n <= 0

\* with ThreadPoolExecutor(max_workers=max_workers) as executor, and
\* executor.map submitting one process_url call per URL, in order.
CreateExecutor ==
    /\ pc = "call"
    /\ IF pool_size_invalid(max_workers)
       THEN pc' = "raised" /\ error' = "ValueError"
       ELSE pc' = "collect" /\ error' = error
    /\ UNCHANGED <<urls, max_workers, state, worker, resp, fut, taken, result, finished, gets, parse_vars, f, norm_vars, api_vars>>

\* A thread that takes a work item although it is running one.
worker_idle_always(w) == TRUE

\* A pool thread is between two work items.
worker_idle(w) == worker[w] = 0

\* The work queue is first in, first out.
queue_head == First({i \in Units : state[i] = "Pending"})

\* A pool thread takes the next work item and calls process_url, which
\* calls get_html.
StartUnit(w) ==
    /\ pc \in {"collect", "shutdown"}
    /\ worker_idle(w)
    /\ queue_head # 0
    /\ state' = [state EXCEPT ![queue_head] = "Fetching"]
    /\ worker' = [worker EXCEPT ![w] = queue_head]
    /\ UNCHANGED <<urls, max_workers, pc, resp, fut, taken, result, error, finished, gets, parse_vars, f, norm_vars, api_vars>>

\* The thread of unit i is free again.
release(i) == [w \in DOMAIN worker |-> IF worker[w] = i THEN 0 ELSE worker[w]]

\* get_html ends: it returns its response, or an exception leaves it and
\* process_url with it.
FetchDone(i) ==
    /\ state[i] = "Fetching"
    /\ \E ev \in BatchEvents :
         LET g == get_html(urls[i], ev)
         IN  IF g.pc = "propagated"
             THEN /\ fut' = [fut EXCEPT ![i] = FutRaised(g.exc)]
                  /\ state' = [state EXCEPT ![i] = "Done"]
                  /\ worker' = release(i)
                  /\ finished' = Append(finished, i)
                  /\ resp' = resp
                  /\ gets' = [gets EXCEPT ![i] = @ + g.gets]
             ELSE /\ resp' = [resp EXCEPT ![i] = g.response]
                  /\ gets' = [gets EXCEPT ![i] = @ + g.gets]
                  /\ state' = [state EXCEPT ![i] =
                                 IF fetch_failed(g.response) THEN "FetchFailed"
                                 ELSE "Fetched"]
                  /\ UNCHANGED <<fut, worker, finished>>
    /\ UNCHANGED <<urls, max_workers, pc, taken, result, error, parse_vars, f, norm_vars, api_vars>>

\* return {url: {'error': response['error']}}
ReturnError(i) ==
    /\ state[i] = "FetchFailed"
    /\ fut' = [fut EXCEPT ![i] = FutReturned(error_result(urls[i], resp[i]))]
    /\ state' = [state EXCEPT ![i] = "Done"]
    /\ worker' = release(i)
    /\ finished' = Append(finished, i)
    /\ UNCHANGED <<urls, max_workers, pc, resp, taken, result, error, gets, parse_vars, f, norm_vars, api_vars>>

\* process_url calls parse_html(url, response['html']).
BeginExtract(i) ==
    /\ state[i] = "Fetched"
    /\ state' = [state EXCEPT ![i] = "Extracting"]
    /\ UNCHANGED <<urls, max_workers, pc, worker, resp, fut, taken, result, error, finished, gets, parse_vars, f, norm_vars, api_vars>>

\* parse_html ends.
ExtractDone(i) ==
    /\ state[i] = "Extracting"
    /\ fut' = [fut EXCEPT ![i] = extract_result(urls[i], resp[i])]
    /\ state' = [state EXCEPT ![i] = "Done"]
    /\ worker' = release(i)
    /\ finished' = Append(finished, i)
    /\ UNCHANGED <<urls, max_workers, pc, resp, taken, result, error, gets, parse_vars, f, norm_vars, api_vars>>

\* An iterator that yields whichever future is done.
next_future_completed ==
    IF {i \in Units : i \notin taken /\ fut[i].done} # {}
    THEN First({i \in Units : i \notin taken /\ fut[i].done})
    ELSE First({i \in Units : i \notin taken})

\* The iterator of executor.map yields the futures in the order of urls.
next_future == First({i \in Units : i \notin taken})

\* A result() that does not wait.
result_ready_unfinished(i) == TRUE

\* future.result() blocks until the call has ended.
result_ready(i) == fut[i].done

\* list(...) takes the next result; a future that holds an exception raises
\* it, and the iterator cancels the futures that have not started.
Collect ==
    /\ pc = "collect"
    /\ next_future # 0
    /\ result_ready(next_future)
    /\ taken' = taken \cup {next_future}
    /\ IF fut[next_future].raised # None
       THEN /\ error' = fut[next_future].raised
            /\ state' = [i \in Units |->
                           IF state[i] = "Pending" THEN "Cancelled" ELSE state[i]]
            /\ pc' = "shutdown"
            /\ result' = result
       ELSE /\ result' = Append(result, fut[next_future].value)
            /\ UNCHANGED <<error, state, pc>>
    /\ UNCHANGED <<urls, max_workers, worker, resp, fut, finished, gets, parse_vars, f, norm_vars, api_vars>>

\* The iterator is exhausted: the list is complete and the with block ends.
EndMap ==
    /\ pc = "collect"
    /\ next_future = 0
    /\ pc' = "shutdown"
    /\ UNCHANGED <<urls, max_workers, state, worker, resp, fut, taken, result, error, finished, gets, parse_vars, f, norm_vars, api_vars>>

\* executor.shutdown(wait=True) has joined the pool threads: the call
\* returns the list, or the exception leaves it.
Shutdown ==
    /\ pc = "shutdown"
    /\ \A i \in Units : state[i] \notin Active \cup {"Pending"}
    /\ pc' = IF error = None THEN "returned" ELSE "raised"
    /\ UNCHANGED <<urls, max_workers, state, worker, resp, fut, taken, result, error, finished, gets, parse_vars, f, norm_vars, api_vars>>

Next ==
    \/ CreateExecutor
    \/ \E w \in Threads : StartUnit(w)
    \/ \E i \in Units : FetchDone(i)
    \/ \E i \in Units : ReturnError(i)
    \/ \E i \in Units : BeginExtract(i)
    \/ \E i \in Units : ExtractDone(i)
    \/ Collect
    \/ EndMap
    \/ Shutdown

Spec == Init /\ [][Next]_vars

\* The steps of the calling thread, and the steps a pool thread takes
\* without waiting for the network or for the parser.
CallerStep == CreateExecutor \/ Collect \/ EndMap \/ Shutdown
WorkerStep ==
    \/ \E w \in Threads : StartUnit(w)
    \/ \E i \in Units : ReturnError(i) \/ BeginExtract(i)

\* The threads are scheduled fairly: the calling thread and the pool
\* threads take their next step when they can.  Every fetch ends
\* (requests.get has a timeout) and so does every call of parse_html:
\* FetchDone(i) is enabled exactly while unit i is Fetching and
\* ExtractDone(i) exactly while it is Extracting, so weak fairness of the
\* two is that no unit stays in either state for ever.
Fairness ==
    /\ WF_vars(CallerStep)
    /\ WF_vars(WorkerStep)
    /\ \A i \in 1..MaxUrls :
         /\ []<>~(i \in Units /\ state[i] = "Fetching")
         /\ []<>~(i \in Units /\ state[i] = "Extracting")

FairSpec == Spec /\ Fairness

(***************************************************************************)
(* rest_framework and django.core.validators, as far as                    *)
(* URLArraySerializer uses them                                            *)
(***************************************************************************)
FTPS == FTP \o <<"s">>
\* URLValidator.schemes
validator_schemes == {HTTP, HTTPS, FTP, FTPS}

\* A label of a host name: letters and hyphens, no hyphen at either end.
label_ok(l) ==
    /\ l # <<>>
    /\ \A k \in 1..Len(l) : l[k] \in Letters \cup {"-"}
    /\ l[1] # "-" /\ l[Len(l)] # "-"

\* host_re of URLValidator for a host that is a domain name: labels
\* separated by dots, the last one a top-level domain of two characters
\* or more.
host_ok(h) ==
    /\ Len(split(h, ".")) >= 2
    /\ \A k \in 1..Len(split(h, ".")) : label_ok(split(h, ".")[k])
    /\ Len(split(h, ".")[Len(split(h, "."))]) >= 2

\* URLValidator()(value) for a value without user, port, query and
\* fragment: one of the schemes, '://', a host and a path without space.
url_validator_ok(value) ==
    /\ urlsplit(value, <<>>).scheme \in validator_schemes
    /\ host_ok(urlsplit(value, <<>>).netloc)
    /\ \A k \in 1..Len(value) : value[k] \notin Whitespace

\* URLField().run_validation(item): CharField trims the string and refuses
\* a blank one, then URLValidator runs.
url_field_ok(item) == strip(item) # <<>> /\ url_validator_ok(strip(item))

\* serializer.errors of URLArraySerializer(data=data): the code of the
\* first error of the field urls, None when data is valid.
serializer_errors(data) ==
    IF data.kind = "missing" THEN "required"
    ELSE IF data.kind # "list" THEN "not_a_list"
    ELSE IF data.urls = <<>> THEN "empty"
    ELSE IF \E k \in 1..Len(data.urls) : ~url_field_ok(data.urls[k]) THEN "invalid"
    ELSE None

\* serializer.is_valid()
is_valid(data) == serializer_errors(data) = None

\* serializer.validated_data['urls']
validated_urls(data) == [k \in 1..Len(data.urls) |-> strip(data.urls[k])]

(***************************************************************************)
(* ScraperAPIView.post: a request is validated, extract_data_from_urls     *)
(* runs with its default pool, and the view answers                        *)
(***************************************************************************)
\* max_workers: int = 5
DefaultMaxWorkers == 5

HTTP_200_OK == 200
HTTP_400_BAD_REQUEST == 400
\* What django answers when an exception leaves the view.
HTTP_500_INTERNAL_SERVER_ERROR == 500

\* The strings of a request: two URLs the serializer accepts (requests has
\* no adapter for the second), and two it refuses (a host without a
\* top-level domain, a string without scheme).
A1 == HTTP \o <<":", "/", "/", "h", ".", "n", "p">>
A2 == FTP \o <<":", "/", "/", "h", ".", "n", "p">>
ApiStrings == {A1, A2, U1, <<"h">>}

\* request.data: without the key urls, with a value that is no list, or
\* with a list of strings.
Requests ==
    {[kind |-> "missing", urls |-> <<>>], [kind |-> "not_a_list", urls |-> <<>>]}
    \cup {[kind |-> "list", urls |-> l] :
            l \in UNION {[1..n -> ApiStrings] : n \in 0..MaxUrls}}

InitApi ==
    /\ a_pc = "request"
    /\ a_data \in Requests
    /\ a_resp = NoReply
    /\ ParseIdle
    /\ FetchIdle
    /\ NormIdle
    /\ BatchIdle

\* Lines 10 to 14 and 16 to 18 of post: the serializer validates
\* request.data; valid data goes to extract_data_from_urls(urls), invalid
\* data is answered with the errors.
ApiPost ==
    /\ a_pc = "request"
    /\ IF is_valid(a_data)
       THEN /\ a_pc' = "run"
            /\ a_resp' = a_resp
            /\ urls' = validated_urls(a_data)
            /\ max_workers' = DefaultMaxWorkers
            /\ pc' = "call"
            /\ state' = [i \in 1..Len(a_data.urls) |-> "Pending"]
            /\ worker' = [w \in 1..DefaultMaxWorkers |-> 0]
            /\ resp' = [i \in 1..Len(a_data.urls) |-> NoResponse]
            /\ fut' = [i \in 1..Len(a_data.urls) |-> FutUnset]
            /\ taken' = {}
            /\ result' = <<>>
            /\ error' = None
            /\ finished' = <<>>
            /\ gets' = [i \in 1..Len(a_data.urls) |-> 0]
       ELSE /\ a_pc' = "responded"
            /\ a_resp' = [status |-> HTTP_400_BAD_REQUEST, data |-> <<>>,
                          errors |-> serializer_errors(a_data)]
            /\ UNCHANGED batch_vars
    /\ UNCHANGED <<a_data, parse_vars, f, norm_vars>>

\* Line 15: return Response(data=extracted_data, status=status.HTTP_200_OK)
ApiRespond ==
    /\ a_pc = "run"
    /\ pc = "returned"
    /\ a_pc' = "responded"
    /\ a_resp' = [status |-> HTTP_200_OK, data |-> result, errors |-> None]
    /\ UNCHANGED <<a_data, parse_vars, f, norm_vars, batch_vars>>

\* extract_data_from_urls raised: post catches nothing, the exception
\* leaves the view and the client gets a server error.
ApiFail ==
    /\ a_pc = "run"
    /\ pc = "raised"
    /\ a_pc' = "responded"
    /\ a_resp' = [status |-> HTTP_500_INTERNAL_SERVER_ERROR, data |-> <<>>,
                  errors |-> error]
    /\ UNCHANGED <<a_data, parse_vars, f, norm_vars, batch_vars>>

NextApi == ApiPost \/ Next \/ ApiRespond \/ ApiFail

SpecApi == InitApi /\ [][NextApi]_vars

(***************************************************************************)
(* Properties of extract_data_from_urls (Spec)                             *)
(***************************************************************************)
BatchReturned == pc = "returned"
NoneValue     == [none |-> TRUE]
ActiveUnits   == {i \in Units : state[i] \in Active}
IsError(r)    == DOMAIN r.body = {"error"}
IsLinks(r)    == DOMAIN r.body = {"links"}

\* C1: the list returned has the length of urls, and its i-th entry is the
\* result of the i-th process_url call, keyed by urls[i], in whatever order
\* the units ended.
C1_OrderPreserved ==
    BatchReturned =>
      /\ Len(result) = Len(urls)
      /\ \A i \in Units : /\ result[i].url = urls[i]
                          /\ fut[i].done
                          /\ result[i] = fut[i].value

\* The second unit ended before the first, their URLs differ and so do
\* their results.
C1_Witness ==
    /\ BatchReturned /\ Len(urls) = 2 /\ finished = <<2, 1>>
    /\ urls[1] # urls[2] /\ IsError(result[1]) /\ IsLinks(result[2])

\* C2 as stated: with a pool of at least one thread the call never fails
\* as a whole because of one URL, and no failure at one position keeps the
\* unit of another position from being processed.
C2_FailureIsolation ==
    max_workers >= 1 =>
      /\ pc # "raised"
      /\ \A j \in Units : state[j] # "Cancelled"

\* C3: the call returns only when every unit is Done, with one result per
\* position and no position left without its result.
C3_ReturnsAfterAllDone ==
    BatchReturned =>
      /\ \A i \in Units : state[i] = "Done"
      /\ Len(result) = Len(urls)
      /\ \A k \in 1..Len(result) : result[k] # NoneValue
      /\ \A w \in Threads : worker[w] = 0

\* The call returned the results of two units.
C3_Witness == BatchReturned /\ Len(urls) = 2 /\ Len(result) = 2 /\ Len(finished) = 2

\* C4: at most max_workers units are active at once, and each is held by
\* a pool thread of its own.
C4_ActiveBounded ==
    /\ Cardinality(ActiveUnits) <= Cardinality(Threads)
    /\ \A i \in ActiveUnits : \E w \in Threads : worker[w] = i

\* A pool of one thread is busy with the first unit while the second waits.
C4_Witness ==
    /\ max_workers = 1 /\ Len(urls) = 2
    /\ state[1] = "Extracting" /\ state[2] = "Pending"

\* C8: in the list returned every position holds exactly one outcome: the
\* error of its own fetch when that failed, the list of links otherwise.
C8_OneOutcomePerUrl ==
    BatchReturned =>
      /\ Len(result) = Len(urls)
      /\ \A i \in Units :
           /\ IsError(result[i]) # IsLinks(result[i])
           /\ IsError(result[i]) <=> resp[i].error # None
           /\ IsError(result[i]) => result[i].body.error = resp[i].error
           /\ IsLinks(result[i]) =>
                result[i].body.links = parse_html(urls[i], html_of(resp[i])).value

\* One position holds an error and the other a list of links, here empty.
C8_Witness ==
    /\ BatchReturned /\ Len(result) = 2
    /\ IsError(result[1]) /\ IsLinks(result[2]) /\ result[2].body.links = <<>>

\* C9: with max_workers <= 0 the call raises ValueError at once: no unit
\* leaves Pending, no fetch is made and nothing is returned.
C9_InvalidPoolFailsFast ==
    max_workers <= 0 =>
      /\ pc \in {"call", "raised"}
      /\ pc = "raised" => error = "ValueError"
      /\ \A i \in Units : /\ state[i] = "Pending"
                          /\ resp[i] = NoResponse
                          /\ ~fut[i].done
      /\ result = <<>> /\ finished = <<>>

\* The call was made with a pool of no thread and two URLs, and raised.
C9_Witness == pc = "raised" /\ max_workers = 0 /\ Len(urls) = 2 /\ error = "ValueError"

\* The transitions of a unit of work that the state machine lists.
ListedTransitions ==
    { <<"Pending", "Fetching">>, <<"Fetching", "FetchFailed">>,
      <<"FetchFailed", "Done">>, <<"Fetching", "Fetched">>,
      <<"Fetched", "Extracting">>, <<"Extracting", "Done">> }

\* C14 as stated: every step of a unit is one of the listed transitions;
\* Extracting is entered only after a fetch that did not fail; a unit that
\* leaves Extracting is Done with the links parse_html returned for its own
\* URL as the base; a unit in Done stays there.
C14_UnitStateMachine ==
    [][\A i \in Units :
         /\ state'[i] # state[i] => <<state[i], state'[i]>> \in ListedTransitions
         /\ state'[i] = "Extracting" => ~fetch_failed(resp'[i])
         /\ state[i] = "Done" => state'[i] = "Done" /\ fut'[i] = fut[i]
         /\ (state[i] = "Extracting" /\ state'[i] # "Extracting") =>
              fut'[i] = FutReturned(
                          [url |-> urls[i],
                           body |-> [links |-> parse_html(urls[i],
                                                          html_of(resp[i])).value]])
      ]_vars

BatchEnded == pc \in {"returned", "raised"}

\* C15 as stated: over a whole run of a batch with a pool of at least one
\* thread requests.get is called exactly once for every position, never a
\* second time after a failure, and every position of the list returned
\* holds the result made from the response of its own fetch.
C15_OneGetPerPosition ==
    /\ \A i \in Units : gets[i] <= 1
    /\ \A i \in Units : state[i] \in {"FetchFailed", "Fetched", "Extracting", "Done"}
                            => gets[i] = 1
    /\ (BatchEnded /\ max_workers >= 1) => \A i \in Units : gets[i] = 1
    /\ BatchReturned =>
         \A i \in Units :
           result[i] = IF fetch_failed(resp[i]) THEN error_result(urls[i], resp[i])
                       ELSE extract_result(urls[i], resp[i]).value

\* C16 as stated: under fair scheduling a call with a pool of at least one
\* thread leads to every unit being Done and to the call returning.
C16_EveryUnitDoneAndReturns ==
    (pc = "call" /\ max_workers >= 1) ~>
      (BatchReturned /\ \A i \in Units : state[i] = "Done")

(***************************************************************************)
(* Properties of get_html (SpecFetch)                                      *)
(***************************************************************************)
FetchReturned == f.pc = "returned"
ErrorSet      == f.response.error # None
HtmlSet       == f.response.html # NoHtml
UrlRefused    == url_exception(f.url) # None
TransportFailed == f.ev.cause # "response"
Is2xx         == 200 <= f.ev.status /\ f.ev.status < 300
Is4xx5xx      == 400 <= f.ev.status /\ f.ev.status < 600

ClosedErrorKinds ==
    {"Timeout", "ConnectionError", "HTTPStatusError", "InvalidURL",
     "UnknownTransportError"}
TimedOut == ~UrlRefused /\ f.ev.cause \in {"connect_timeout", "read_timeout"}

ParseDone == p_pc = "done"
Blank(str) == \A k \in 1..Len(str) : str[k] \in Whitespace
\* The anchors of the document that carry a text and an href that are not
\* blank.
UsableAnchors ==
    {j \in 1..Len(p_html) : /\ p_html[j].name = "a"
                            /\ p_html[j].has_href
                            /\ ~Blank(p_html[j].href)
                            /\ ~Blank(p_html[j].text)}
\* The document has a region: the marker div, or a list item around the
\* first keyword anchor.
RegionResolved ==
    \/ \E i \in 1..Len(p_html) : p_html[i].name = "div" /\ p_html[i].id = MarkerId
    \/ \E i \in 1..Len(p_html) :
         /\ p_html[i].name = "a" /\ pattern_search(p_html[i].text)
         /\ \A k \in 1..(i - 1) :
              ~(p_html[k].name = "a" /\ pattern_search(p_html[k].text))
         /\ \E a \in Range(parents(p_html, i)) : p_html[a].name = "li"

\* C6 as stated: parse_html never raises, whatever the document.
C6_ParseNeverRaises == ParseDone => p_out.raised = None

\* C10: every link returned has a non-empty trimmed name and a non-empty
\* normalized URL and comes from an anchor whose text and href are not
\* blank; anchors with a blank text or href are dropped without an error.
C10_LinksNonEmpty ==
    ParseDone =>
      /\ \A k \in 1..Len(p_out.value) :
           /\ p_out.value[k].service_name # <<>>
           /\ ~Blank(p_out.value[k].service_name)
           /\ p_out.value[k].link_of_service # <<>>
           /\ \E j \in UsableAnchors :
                p_out.value[k].service_name = strip(p_html[j].text)
      /\ Len(p_out.value) <= Cardinality(UsableAnchors)
      /\ RegionResolved => p_out.raised = None

\* A link was harvested from a region that also holds an anchor with a
\* blank href and a text.
C10_Witness ==
    /\ ParseDone /\ Len(p_out.value) = 1
    /\ \E i, j \in 1..Len(p_html) :
         /\ p_html[i].name = "div" /\ p_html[j].name = "a" /\ p_html[j].parent = i
         /\ p_html[j].has_href /\ Blank(p_html[j].href) /\ ~Blank(p_html[j].text)

HasMarker ==
    \E i \in 1..Len(p_html) : p_html[i].name = "div" /\ p_html[i].id = MarkerId
HasKeywordAnchor ==
    \E i \in 1..Len(p_html) : p_html[i].name = "a" /\ pattern_search(p_html[i].text)
\* What get_html returns for the page p_html fetched from p_base.
FetchedPage == [url |-> p_base, error |-> None, html |-> Html(p_html)]

\* C12: a fetched page that is empty, or holds neither the marker div nor a
\* keyword anchor, gives the empty list of links for its URL: parse_html
\* returns [] and process_url the links entry, not an error and no exception.
C12_NoRegionGivesEmptyLinks ==
    (ParseDone /\ ~HasMarker /\ ~HasKeywordAnchor) =>
      /\ p_out = Returned(<<>>)
      /\ ~fetch_failed(FetchedPage)
      /\ extract_result(p_base, FetchedPage)
           = FutReturned([url |-> p_base, body |-> [links |-> <<>>]])

\* A page with a usable link in a list item, but no marker and no keyword,
\* gave the empty list.
C12_Witness ==
    /\ ParseDone /\ ~HasMarker /\ ~HasKeywordAnchor
    /\ \E j \in UsableAnchors : p_html[j].parent # 0
    /\ p_out = Returned(<<>>)

\* The first marker div of the document, and the usable anchors below an
\* element.
FirstMarker ==
    CHOOSE i \in 1..Len(p_html) :
      /\ p_html[i].name = "div" /\ p_html[i].id = MarkerId
      /\ \A k \in 1..(i - 1) : ~(p_html[k].name = "div" /\ p_html[k].id = MarkerId)
UsableBelow(i) == {j \in UsableAnchors : i \in Range(parents(p_html, j))}
\* The list items around the first keyword anchor, when the document has one.
KeywordItems ==
    {a \in 1..Len(p_html) :
       /\ p_html[a].name = "li"
       /\ \E i \in 1..Len(p_html) :
            /\ p_html[i].name = "a" /\ pattern_search(p_html[i].text)
            /\ \A k \in 1..(i - 1) :
                 ~(p_html[k].name = "a" /\ pattern_search(p_html[k].text))
            /\ a \in Range(parents(p_html, i))}
\* The links returned are those of the usable anchors in S.
LinksAreFrom(S) ==
    /\ p_out.raised = None
    /\ Len(p_out.value) = Cardinality(S)
    /\ \A k \in 1..Len(p_out.value) :
         \E j \in S : p_out.value[k].service_name = strip(p_html[j].text)
    /\ \A j \in S :
         \E k \in 1..Len(p_out.value) :
           p_out.value[k].service_name = strip(p_html[j].text)

\* C17: when the document holds the marker div the links are those below
\* the first marker div and no other, also when there is none below it and
\* a keyword anchor stands elsewhere; the list item of the keyword anchor is
\* the region only when there is no marker div.
C17_MarkerWins ==
    ParseDone =>
      /\ HasMarker => LinksAreFrom(UsableBelow(FirstMarker))
      /\ (~HasMarker /\ KeywordItems # {}) =>
           \E a \in KeywordItems :
             /\ \A b \in KeywordItems : b \in Range(parents(p_html, a)) \/ b = a
             /\ LinksAreFrom(UsableBelow(a))

\* The marker div holds no usable link, a usable keyword anchor stands in a
\* list item outside it, and no link was returned.
C17_Witness ==
    /\ ParseDone /\ HasMarker /\ UsableBelow(FirstMarker) = {}
    /\ \E j \in UsableAnchors :
         /\ pattern_search(p_html[j].text)
         /\ p_html[j].parent # 0
         /\ p_html[p_html[j].parent].name = "li"
         /\ FirstMarker \notin Range(parents(p_html, j))
    /\ p_out = Returned(<<>>)

(***************************************************************************)
(* Properties of normalize_url (SpecNorm)                                  *)
(***************************************************************************)
NormOnce  == n_pc \in {"once", "twice"}
NormTwice == n_pc = "twice"
\* url has no scheme: it is a relative reference.
RelativeRef(url) == urlsplit(url, <<>>).scheme = <<>>
\* base is an absolute http(s) URL with a host, as every URL is whose page
\* get_html fetched.
HostBase(base) ==
    /\ urlsplit(base, <<>>).scheme \in {HTTP, HTTPS}
    /\ urlsplit(base, <<>>).netloc # <<>>

TrailingSlashes(str) ==
    Cardinality({k \in 1..Len(str) : \A j \in k..Len(str) : str[j] = "/"})
AllTrimmed(str) == SubSeq(str, 1, Len(str) - TrailingSlashes(str))
OneTrimmed(str) ==
    SubSeq(str, 1, Len(str) - (IF TrailingSlashes(str) > 0 THEN 1 ELSE 0))

\* C18 as stated: exactly one trailing '/' is removed from the base before
\* the join and exactly one from the joined result.
C18_AsStated ==
    NormOnce => n_out = OneTrimmed(urljoin(OneTrimmed(n_base), n_url))

\* C18 amended: every trailing '/' is removed from the base before the join
\* and every trailing '/' from the joined result, so the result never ends
\* in '/'.
C18_AllTrailingSlashesRemoved ==
    NormOnce =>
      /\ n_out = AllTrimmed(urljoin(AllTrimmed(n_base), n_url))
      /\ TrailingSlashes(n_out) = 0

\* A base and a joined result that both end in '//' lost both slashes.
C18_Witness ==
    /\ NormOnce /\ n_base = U2 \o <<"/">> /\ n_url = <<"/", "a", "/", "/">>
    /\ TrailingSlashes(n_base) = 2
    /\ TrailingSlashes(urljoin(AllTrimmed(n_base), n_url)) = 2
    /\ n_out = U1 \o <<"/", "a">>

(***************************************************************************)
(* Properties of ScraperAPIView.post (SpecApi)                             *)
(***************************************************************************)
ApiResponded == a_pc = "responded"
\* request.data holds a non-empty list of URLs the serializer accepts.
ValidRequest ==
    /\ a_data.kind = "list" /\ a_data.urls # <<>>
    /\ \A k \in 1..Len(a_data.urls) : url_field_ok(a_data.urls[k])

\* C13 as stated: a request without a list of URLs, with an empty list or
\* with an invalid URL is answered 400 and no fetch is dispatched; every
\* valid request is answered 200 with the result of the batch, one entry
\* per URL, whether the URLs failed or not.
C13_InvalidIs400ValidIs200 ==
    /\ ~ValidRequest => BatchIdle
    /\ ApiResponded =>
         IF ValidRequest
         THEN /\ a_resp.status = HTTP_200_OK
              /\ Len(a_resp.data) = Len(a_data.urls)
              /\ a_resp.data = result
         ELSE a_resp.status = HTTP_400_BAD_REQUEST
=============================================================================
